---- MODULE Spec2Model ----
(***************************************************************************)
(* Model of scripts/sync_workshops.py: the run of main() over the          *)
(* configured sources, the record normalizer, rebuild_workshops,           *)
(* prune_events and the two final dedup passes, repeated over several runs *)
(* on the persisted catalog.                                               *)
(*                                                                         *)
(* Representation.  Time is counted in hours.  Python None and the empty   *)
(* string are both falsy everywhere the code tests these fields, so one    *)
(* value stands for both: "" for texts, NoneUrl for URLs, NoTime for       *)
(* instants, NoId for ids.  A startAt that is a string dateutil cannot     *)
(* parse is BadTime.                                                       *)
(***************************************************************************)
EXTENDS Integers, Sequences, FiniteSets, TLC

----------------------------------------------------------------------------
(* Bounds of the model *)

MaxRuns == 2        \* runs of main() explored
MaxClockSteps == 1  \* hours the wall clock may advance over the runs
MaxRangeHour == 24  \* largest hour written in the time ranges of the texts

----------------------------------------------------------------------------
(* Program constants and settings *)

DEFAULT_EVENT_DURATION_HOURS == 2
prune_days_past == 1
keep_days_future == 1
max_events_per_source == 4
DayHours == 24
InitialNow == 48

NoTime == 0 - 1
BadTime == 0 - 2

----------------------------------------------------------------------------
(* URLs: the components urlparse splits a URL into.  path is a sequence of  *)
(* one-character strings, query the sequence of parameter names.            *)

NoneUrl == [scheme |-> "", netloc |-> "", path |-> <<>>, query |-> <<>>, fragment |-> ""]

TRACKING_PARAMS ==
    {"utm_source", "utm_medium", "utm_campaign", "utm_term", "utm_content",
     "fbclid", "gclid", "mc_cid", "mc_eid"}

\* str.lower() on the scheme and host strings of the model
LowerStr(s) ==
    CASE s = "HTTPS" -> "https"
      [] s = "HTTP" -> "http"
      [] s = "Y.COM" -> "y.com"
      [] s = "Ax.Org" -> "ax.org"
      [] OTHER -> s

DropTracking(q) == SelectSeq(q, LAMBDA k : k \notin TRACKING_PARAMS)

normalize_url(url) ==
    IF url = NoneUrl THEN NoneUrl
    ELSE LET scheme == LowerStr(IF url.scheme = "" THEN "https" ELSE url.scheme)
             netloc == LowerStr(url.netloc)
             path == IF url.path # <<"/">> /\ Len(url.path) > 0
                        /\ url.path[Len(url.path)] = "/"
                     THEN SubSeq(url.path, 1, Len(url.path) - 1)
                     ELSE url.path
         IN [scheme |-> scheme, netloc |-> netloc, path |-> path,
             query |-> DropTracking(url.query), fragment |-> ""]

----------------------------------------------------------------------------
(* Titles *)

\* str.lower() / str.upper() on the titles of the model
LowerTitle(t) ==
    CASE t = "Workshop" -> "workshop"
      [] t = "Demo" -> "demo"
      [] t = "DEMO" -> "demo"
      [] t = "Intro" -> "intro"
      [] t = "Late Show" -> "late show"
      [] t = "Class Pack" -> "class pack"
      [] OTHER -> t

UpperTitle(t) ==
    CASE t = "Workshop" -> "WORKSHOP"
      [] t = "Demo" -> "DEMO"
      [] t = "Intro" -> "INTRO"
      [] t = "Late Show" -> "LATE SHOW"
      [] t = "Class Pack" -> "CLASS PACK"
      [] OTHER -> t

\* re.sub(r'[^a-z0-9]', '', title.lower())[:30]
TitleNorm(t) ==
    CASE LowerTitle(t) = "late show" -> "lateshow"
      [] LowerTitle(t) = "class pack" -> "classpack"
      [] OTHER -> LowerTitle(t)

GenericTitles == {"THE VO PROS", "THEVOPROS", "VO PROS", "WORKSHOP", "CLASS", "EVENT"}

\* the ongoing_patterns of is_ongoing_class, on the titles of the model
is_ongoing_class(title, detail) == LowerTitle(title) = "class pack"

----------------------------------------------------------------------------
(* Identity *)

NoId == [src |-> <<>>, kind |-> "", title |-> "", start |-> NoTime, url |-> NoneUrl]

\* f"{source_id}-{sha1(key)[:16]}": src is the source id split at its hyphens,
\* the other fields are the key that is hashed (sha1 taken as injective on the
\* keys of the model).
compute_event_id(source_id, title, start_at, reg_url) ==
    IF reg_url # NoneUrl
    THEN [src |-> source_id, kind |-> "url", title |-> "", start |-> NoTime, url |-> reg_url]
    ELSE [src |-> source_id, kind |-> "ts", title |-> LowerTitle(title),
          start |-> start_at, url |-> NoneUrl]

\* "-" in event_id
HasHyphen(id) == id # NoId

\* event_id.split("-")[0], as a source id
SplitFirst(id) == <<Head(id.src)>>

----------------------------------------------------------------------------
(* Dates *)

\* A raw date is NoTime (absent), BadTime (text that does not parse), an
\* instant written with its year, day and clock time, or DateOnly(day): a
\* text that gives the year and the day and no clock time.
DateOnlyBase == 10000

DateOnly(day) == DateOnlyBase + day

IsDateOnly(value) == value >= DateOnlyBase

\* the clock time of an instant
TimeOfDay(t) == t % DayHours

\* dateparser.parse(s, fuzzy=True, default=now) takes every field the text
\* does not give from now.  All the raw dates of the model give the year, so
\* the year is never inferred.
parse_date_any(value, clock) ==
    IF value = NoTime \/ value = BadTime THEN NoTime
    ELSE IF IsDateOnly(value)
         THEN (value - DateOnlyBase) * DayHours + TimeOfDay(clock)
         ELSE value

----------------------------------------------------------------------------
(* Record normalizer *)

\* links: keep the entries that have a url, each normalized
RECURSIVE CleanLinks(_)
CleanLinks(links) ==
    IF links = <<>> THEN <<>>
    ELSE IF Head(links) # NoneUrl
         THEN <<normalize_url(Head(links))>> \o CleanLinks(Tail(links))
         ELSE CleanLinks(Tail(links))

\* e: the raw candidate of an extractor; source: the configured source
ensure_workshop_schema(e, source, clock) ==
    LET src_id == IF source.id = <<>> THEN <<"unknown">> ELSE source.id
        title == IF e.title = "" THEN "Workshop" ELSE e.title
        reg_url == normalize_url(IF e.registrationURL # NoneUrl
                                 THEN e.registrationURL ELSE source.url)
        raw_start == e.startAt
        raw_end == e.endAt
        start_dt == IF raw_start # NoTime THEN parse_date_any(raw_start, clock) ELSE NoTime
        end_0 == IF raw_end # NoTime THEN parse_date_any(raw_end, clock) ELSE NoTime
        end_1 == IF start_dt # NoTime /\ end_0 = NoTime
                 THEN start_dt + DEFAULT_EVENT_DURATION_HOURS ELSE end_0
        end_dt == IF start_dt # NoTime /\ end_1 # NoTime /\ end_1 <= start_dt
                  THEN end_1 + DayHours ELSE end_1
        startAt == IF start_dt # NoTime THEN start_dt ELSE raw_start
        endAt == IF end_dt # NoTime THEN end_dt ELSE raw_end
        cleaned == CleanLinks(e.links)
        links == IF cleaned = <<>> /\ reg_url # NoneUrl THEN <<reg_url>> ELSE cleaned
        id == IF e.id = NoId /\ startAt # NoTime
              THEN compute_event_id(src_id, title, startAt, reg_url)
              ELSE e.id
    IN [id |-> id, title |-> title, venue |-> e.venue, startAt |-> startAt,
        endAt |-> endAt, registrationURL |-> reg_url, detail |-> e.detail,
        provider |-> src_id, links |-> links]

RECURSIVE NormalizeAll(_, _, _)
NormalizeAll(events, source, clock) ==
    IF events = <<>> THEN <<>>
    ELSE <<ensure_workshop_schema(Head(events), source, clock)>>
         \o NormalizeAll(Tail(events), source, clock)

\* apply_event_filters with no filters configured: ongoing classes are dropped
apply_event_filters(events) ==
    SelectSeq(events, LAMBDA e : ~is_ongoing_class(e.title, e.detail))

\* events[:max_events_per_source]
Cap(events) ==
    IF Len(events) > max_events_per_source
    THEN SubSeq(events, 1, max_events_per_source) ELSE events

----------------------------------------------------------------------------
(* Merge *)

Inf == 1000 * 1000

\* keyfn of rebuild_workshops: the timestamp, float("inf") when startAt does
\* not parse
keyfn(x) == IF x.startAt = NoTime \/ x.startAt = BadTime THEN Inf ELSE x.startAt

\* list.sort(key=keyfn) is stable: x goes after every element whose key is
\* not larger
RECURSIVE InsertByKey(_, _)
InsertByKey(x, sorted) ==
    IF sorted = <<>> THEN <<x>>
    ELSE IF keyfn(Head(sorted)) <= keyfn(x)
         THEN <<Head(sorted)>> \o InsertByKey(x, Tail(sorted))
         ELSE <<x>> \o sorted

RECURSIVE SortByKey(_, _)
SortByKey(items, acc) ==
    IF items = <<>> THEN acc
    ELSE SortByKey(Tail(items), InsertByKey(Head(items), acc))

\* Step 1: an existing entry is kept when the text of its id before the first
\* hyphen is not a successfully scraped source
KeepExisting(w, succ) ==
    /\ HasHyphen(w.id)
    /\ SplitFirst(w.id) \notin succ

\* Step 1 left out: every existing entry is carried over
rebuild_workshops_KeepAll(old, incoming, succ) ==
    SortByKey(old \o SelectSeq(incoming, LAMBDA w : w.id # NoId), <<>>)

rebuild_workshops(old, incoming, succ) ==
    LET kept == SelectSeq(old, LAMBDA w : KeepExisting(w, succ))
        fresh == SelectSeq(incoming, LAMBDA w : w.id # NoId)
    IN SortByKey(kept \o fresh, <<>>)

----------------------------------------------------------------------------
(* Retention *)

\* the past edge compared with > instead of >=
RECURSIVE prune_events_Strict(_, _, _, _)
prune_events_Strict(items, past_days, future_days, clock) ==
    IF items = <<>> THEN <<>>
    ELSE LET w == Head(items)
             past_cut == clock - past_days * DayHours
             future_cut == clock + future_days * DayHours
             start == parse_date_any(w.startAt, clock)
             end_0 == parse_date_any(w.endAt, clock)
             end == IF end_0 # NoTime THEN end_0 ELSE start
             rest == prune_events_Strict(Tail(items), past_days, future_days, clock)
         IN IF start = NoTime THEN rest
            ELSE IF end # NoTime /\ end > past_cut /\ start <= future_cut
                 THEN <<w>> \o rest
                 ELSE rest

\* the entries are removed from the list while it is iterated: the entry
\* after a removed one is passed over and stays
RECURSIVE prune_events_RemoveWhileIterating(_, _, _, _)
prune_events_RemoveWhileIterating(items, past_days, future_days, clock) ==
    IF items = <<>> THEN <<>>
    ELSE LET w == Head(items)
             past_cut == clock - past_days * DayHours
             future_cut == clock + future_days * DayHours
             start == parse_date_any(w.startAt, clock)
             end_0 == parse_date_any(w.endAt, clock)
             end == IF end_0 # NoTime THEN end_0 ELSE start
         IN IF start # NoTime /\ end # NoTime /\ end >= past_cut /\ start <= future_cut
            THEN <<w>> \o prune_events_RemoveWhileIterating(
                              Tail(items), past_days, future_days, clock)
            ELSE IF Tail(items) = <<>> THEN <<>>
                 ELSE <<Head(Tail(items))>> \o prune_events_RemoveWhileIterating(
                          Tail(Tail(items)), past_days, future_days, clock)

RECURSIVE prune_events(_, _, _, _)
prune_events(items, past_days, future_days, clock) ==
    IF items = <<>> THEN <<>>
    ELSE LET w == Head(items)
             past_cut == clock - past_days * DayHours
             future_cut == clock + future_days * DayHours
             start == parse_date_any(w.startAt, clock)
             end_0 == parse_date_any(w.endAt, clock)
             end == IF end_0 # NoTime THEN end_0 ELSE start
             rest == prune_events(Tail(items), past_days, future_days, clock)
         IN IF start = NoTime THEN rest
            ELSE IF end # NoTime /\ end >= past_cut /\ start <= future_cut
                 THEN <<w>> \o rest
                 ELSE rest

\* the entries of items that the pruning to kept has dropped because they
\* end before the past cut, each with the number of the run
AgedOut(items, kept, clock, run) ==
    { [event |-> items[k], run |-> run] :
      k \in { j \in DOMAIN items :
                 /\ items[j].endAt >= 0
                 /\ items[j].endAt < clock - prune_days_past * DayHours
                 /\ \A i \in DOMAIN kept : kept[i] # items[j] } }

----------------------------------------------------------------------------
(* Final dedup passes of main *)

\* url_deduped.index(seen_urls[url]): url_deduped holds one entry per url
RECURSIVE IndexOfUrl(_, _, _)
IndexOfUrl(acc, url, i) ==
    IF i > Len(acc) THEN 0
    ELSE IF acc[i].registrationURL = url THEN i
         ELSE IndexOfUrl(acc, url, i + 1)

\* Pass 1 left out
DedupeByUrl_Off(items, acc) == acc \o items

\* Pass 1: one entry per registrationURL; a generic title gives way to a real one
RECURSIVE DedupeByUrl(_, _)
DedupeByUrl(items, acc) ==
    IF items = <<>> THEN acc
    ELSE LET w == Head(items)
             url == w.registrationURL
             idx == IndexOfUrl(acc, url, 1)
         IN IF url = NoneUrl THEN DedupeByUrl(Tail(items), Append(acc, w))
            ELSE IF idx # 0
                 THEN IF UpperTitle(w.title) \notin GenericTitles
                         /\ UpperTitle(acc[idx].title) \in GenericTitles
                      THEN DedupeByUrl(Tail(items), [acc EXCEPT ![idx] = w])
                      ELSE DedupeByUrl(Tail(items), acc)
                 ELSE DedupeByUrl(Tail(items), Append(acc, w))

\* (w.get('startAt') or '')[:10]: the calendar date of an instant
DatePart(t) == IF t < 0 THEN t ELSE t \div DayHours

DedupKey(w) == <<TitleNorm(w.title), DatePart(w.startAt)>>

\* Pass 2: one entry per (normalized title, date)
RECURSIVE DedupeByTitleDate(_, _, _)
DedupeByTitleDate(items, seen_keys, acc) ==
    IF items = <<>> THEN acc
    ELSE LET w == Head(items)
         IN IF DedupKey(w) \in seen_keys
            THEN DedupeByTitleDate(Tail(items), seen_keys, acc)
            ELSE DedupeByTitleDate(Tail(items), seen_keys \cup {DedupKey(w)},
                                   Append(acc, w))

FinalDedup(items) == DedupeByTitleDate(DedupeByUrl(items, <<>>), {}, <<>>)

----------------------------------------------------------------------------
(* Configuration and extractor outputs *)

UrlY == [scheme |-> "https", netloc |-> "y.com", path |-> <<"/", "e">>,
         query |-> <<>>, fragment |-> ""]

UrlLanding == [scheme |-> "https", netloc |-> "ax.org", path |-> <<"/">>,
               query |-> <<>>, fragment |-> ""]

\* The sources of the configuration document, in its order.  The second id
\* is "a-x"; only the second source has a landing-page url and sets
\* allow_zero_events.
Sources ==
    << [id |-> <<"a">>, url |-> NoneUrl, allow_zero_events |-> FALSE],
       [id |-> <<"a", "x">>, url |-> UrlLanding, allow_zero_events |-> TRUE] >>

SourceIdx == 1..Len(Sources)

\* Instants at the edges of the retention window of the first run
PastEdgeStart == InitialNow - prune_days_past * DayHours - DEFAULT_EVENT_DURATION_HOURS
MidStart == InitialNow + DEFAULT_EVENT_DURATION_HOURS
FutureEdgeStart == InitialNow + keep_days_future * DayHours

\* A raw candidate as the extractors build it: the id is either left out or
\* computed by the extractor with compute_event_id from its own title, start
\* and registration url argument.
Candidate(src, idmode, title, start, url, detail) ==
    [id |-> CASE idmode = "ts" -> compute_event_id(src, title, start, NoneUrl)
              [] idmode = "url" -> compute_event_id(src, title, start, normalize_url(url))
              [] OTHER -> NoId,
     title |-> title, startAt |-> start, endAt |-> NoTime,
     registrationURL |-> url, detail |-> detail, venue |-> "", links |-> <<>>]

\* The events a site can list, in page order
Listing(i) ==
    IF i = 1
    THEN << Candidate(Sources[1].id, "ts", "Demo", PastEdgeStart, NoneUrl, "foo"),
            Candidate(Sources[1].id, "ts", "Demo", PastEdgeStart, UrlY, ""),
            Candidate(Sources[1].id, "none", "", MidStart, UrlY, ""),
            Candidate(Sources[1].id, "none", "Intro", FutureEdgeStart, UrlY, ""),
            Candidate(Sources[1].id, "none", "Class Pack", MidStart, NoneUrl, "") >>
    ELSE << Candidate(Sources[2].id, "none", "Intro", MidStart, NoneUrl, ""),
            Candidate(Sources[2].id, "none", "Late Show", NoTime, NoneUrl, ""),
            Candidate(Sources[2].id, "ts", "Late Show", FutureEdgeStart + 1, NoneUrl, "") >>

\* the entries of list at the positions in keep, in list order
RECURSIVE SubList(_, _, _)
SubList(list, keep, k) ==
    IF k > Len(list) THEN <<>>
    ELSE IF k \in keep THEN <<list[k]>> \o SubList(list, keep, k + 1)
         ELSE SubList(list, keep, k + 1)

\* What an extractor can return in a run: any part of the listing
Batches(i) == { SubList(Listing(i), keep, 1) : keep \in SUBSET (1..Len(Listing(i))) }

----------------
(* State *)

VARIABLES
    catalog,        \* resources["workshops"] as persisted
    now,            \* the wall clock, in hours
    runs,           \* completed runs
    pc,             \* position of main: "idle", "loop", "write"
    idx,            \* index in sources of the source processed next
    existing,       \* the catalog read at the start of the run
    incoming_all,
    succeeded,      \* successfully_scraped_sources
    outcome,        \* per source, how its turn of the loop ended in this run
    returned,       \* per source: "no", or what its extractor returned, "empty" or "records"
    rebuilt,        \* result of rebuild_workshops
    pruned,         \* result of prune_events
    deduped,        \* result of the two final dedup passes
    aged,           \* history: the entries prune_events has dropped as past, each
                    \* with the number of the run that dropped it
    probe           \* a function applied on its own: its inputs and its result

\* the state of main
runvars == <<catalog, now, runs, pc, idx, existing, incoming_all, succeeded,
             outcome, returned, rebuilt, pruned, deduped, aged>>

vars == <<runvars, probe>>

\* no function is applied on its own
NoProbe == [fn |-> "none"]

\* main has not run
RunIdle ==
    /\ catalog = <<>>
    /\ now = InitialNow
    /\ runs = 0
    /\ pc = "idle"
    /\ idx = 1
    /\ existing = <<>>
    /\ incoming_all = <<>>
    /\ succeeded = {}
    /\ outcome = [i \in SourceIdx |-> "pending"]
    /\ returned = [i \in SourceIdx |-> "no"]
    /\ rebuilt = <<>>
    /\ pruned = <<>>
    /\ deduped = <<>>
    /\ aged = {}

Init ==
    /\ RunIdle
    /\ probe = NoProbe

\* main, up to the loop over the sources: the configuration and the catalog
\* are read; the clock may have advanced since the last run
StartRun ==
    /\ pc = "idle"
    /\ runs < MaxRuns
    /\ \E t \in now..(InitialNow + MaxClockSteps) : now' = t
    /\ existing' = catalog
    /\ incoming_all' = <<>>
    /\ succeeded' = {}
    /\ outcome' = [i \in SourceIdx |-> "pending"]
    /\ returned' = [i \in SourceIdx |-> "no"]
    /\ idx' = 1
    /\ rebuilt' = <<>>
    /\ pruned' = <<>>
    /\ deduped' = <<>>
    /\ pc' = "loop"
    /\ UNCHANGED <<probe, aged, catalog, runs>>

\* the extractor name of the source is not in EXTRACTORS: continue
SourceSkipped ==
    /\ pc = "loop"
    /\ idx <= Len(Sources)
    /\ outcome' = [outcome EXCEPT ![idx] = "skipped"]
    /\ idx' = idx + 1
    /\ UNCHANGED <<probe, aged, catalog, now, runs, pc, existing, incoming_all,
                   succeeded, returned, rebuilt, pruned, deduped>>

\* the exception leaves main: the run ends without merging or writing
SourceRaised_Aborts ==
    /\ pc = "loop"
    /\ idx <= Len(Sources)
    /\ outcome' = [outcome EXCEPT ![idx] = "raised"]
    /\ pc' = "aborted"
    /\ UNCHANGED <<probe, aged, catalog, now, runs, idx, existing, incoming_all,
                   succeeded, returned, rebuilt, pruned, deduped>>

\* the extractor, the filters or the normalization raises: caught by the
\* except clause of the loop body
SourceRaised ==
    /\ pc = "loop"
    /\ idx <= Len(Sources)
    /\ outcome' = [outcome EXCEPT ![idx] = "raised"]
    /\ idx' = idx + 1
    /\ UNCHANGED <<probe, aged, catalog, now, runs, pc, existing, incoming_all,
                   succeeded, returned, rebuilt, pruned, deduped>>

\* The events of a source after filters, normalization and the cap
Processed(i, batch, clock) ==
    Cap(NormalizeAll(apply_event_filters(batch), Sources[i], clock))

\* zero records count as a success by default
AllowZero_Always(source) == TRUE

\* allow_zero of main, for a source whose "filters" is absent
AllowZero(source) == source.allow_zero_events

\* "records" or "empty"
WhatReturned(batch) == IF batch = <<>> THEN "empty" ELSE "records"

\* the extractor returns and the rest of the try block runs to its end
SourceReturned ==
    /\ pc = "loop"
    /\ idx <= Len(Sources)
    /\ \E batch \in Batches(idx) :
         LET events == Processed(idx, batch, now)
         IN /\ incoming_all' = incoming_all \o events
            /\ returned' = [returned EXCEPT ![idx] = WhatReturned(batch)]
            /\ IF events # <<>> \/ AllowZero(Sources[idx])
               THEN /\ succeeded' = succeeded \cup {Sources[idx].id}
                    /\ outcome' = [outcome EXCEPT ![idx] = "ok"]
               ELSE /\ succeeded' = succeeded
                    /\ outcome' = [outcome EXCEPT ![idx] = "zero"]
    /\ idx' = idx + 1
    /\ UNCHANGED <<probe, aged, catalog, now, runs, pc, existing, rebuilt, pruned, deduped>>

\* the configuration read by this run gives the source "filters": null, and
\* the source has no top-level allow_zero_events: the events are already in
\* incoming_all when s.get("filters", {}).get(...) raises, and the except
\* clause leaves the source out of the succeeded set
SourceRaisedAfterExtend ==
    /\ pc = "loop"
    /\ idx <= Len(Sources)
    /\ ~Sources[idx].allow_zero_events
    /\ \E batch \in Batches(idx) :
         /\ incoming_all' = incoming_all \o Processed(idx, batch, now)
         /\ returned' = [returned EXCEPT ![idx] = WhatReturned(batch)]
    /\ outcome' = [outcome EXCEPT ![idx] = "raised_late"]
    /\ idx' = idx + 1
    /\ UNCHANGED <<probe, aged, catalog, now, runs, pc, existing, succeeded, rebuilt,
                   pruned, deduped>>

\* main after the loop: merge, prune, dedup
Compute ==
    /\ pc = "loop"
    /\ idx > Len(Sources)
    /\ LET r == rebuild_workshops(existing, incoming_all, succeeded)
           p == prune_events(r, prune_days_past, keep_days_future, now)
       IN /\ rebuilt' = r
          /\ pruned' = p
          /\ deduped' = FinalDedup(p)
          /\ aged' = aged \cup AgedOut(r, p, now, runs + 1)
    /\ pc' = "write"
    /\ UNCHANGED <<probe, catalog, now, runs, idx, existing, incoming_all,
                   succeeded, outcome, returned>>

\* resources["workshops"] = deduped; json.dump
Write ==
    /\ pc = "write"
    /\ catalog' = deduped
    /\ runs' = runs + 1
    /\ pc' = "idle"
    /\ UNCHANGED <<probe, aged, now, idx, existing, incoming_all, succeeded, outcome,
                   returned, rebuilt, pruned, deduped>>

Next ==
    \/ StartRun
    \/ SourceSkipped
    \/ SourceRaised
    \/ SourceReturned
    \/ SourceRaisedAfterExtend
    \/ Compute
    \/ Write

Spec == Init /\ [][Next]_vars

----------------------------------------------------------------------------
(* Vocabulary of the properties *)

ToSet(seq) == { seq[k] : k \in DOMAIN seq }

Ids(seq) == { seq[k].id : k \in DOMAIN seq }

\* The entries of a list that a source produced (provider is stamped with the
\* source id by the normalizer)
OfSource(seq, i) == SelectSeq(seq, LAMBDA w : w.provider = Sources[i].id)

\* The run has merged: its locals hold the inputs and the results of the merge
Merged == pc = "write"

Processed_(i) == outcome[i] # "pending"

IsSucceeded(i) == Sources[i].id \in succeeded

\* A source whose turn ended without it being marked succeeded
IsFailed(i) == outcome[i] \in {"raised", "zero", "raised_late"}

----------------------------------------------------------------------------
(* C1 *)

\* C1: for every source classified as failed in a run, every entry of the
\* prior catalog that belongs to that source is in the list rebuild_workshops
\* returns, unchanged.
C1_FailedSourceEntriesKept ==
    Merged =>
        \A i \in SourceIdx :
            IsFailed(i) =>
                \A k \in DOMAIN existing :
                    existing[k].provider = Sources[i].id
                        => existing[k] \in ToSet(rebuilt)

----------------------------------------------------------------------------
(* C2 *)

\* C2: for every source classified as succeeded in a run, a prior entry of
\* that source that this run did not produce again for that source is absent
\* from the merged catalog.
C2_SucceededSourceReplaced ==
    Merged =>
        \A i \in SourceIdx :
            IsSucceeded(i) =>
                \A k \in DOMAIN existing :
                    ( /\ existing[k].provider = Sources[i].id
                      /\ existing[k].id \notin Ids(OfSource(incoming_all, i)) )
                        => existing[k].id \notin Ids(rebuilt)

----------------------------------------------------------------------------
(* C3 *)

\* C3: a source is in the succeeded set if and only if its extractor returned
\* at least one record or the source is configured allow-zero.
C3_SucceededIffReturnedOrAllowZero ==
    \A i \in SourceIdx :
        outcome[i] \in {"ok", "zero"} =>
            (IsSucceeded(i) <=>
                (returned[i] = "records" \/ Sources[i].allow_zero_events))

\* C3 as amended: a source is in the succeeded set if and only if its turn of
\* the loop ran to the end without an exception and either at least one of
\* its records is left after the filters, the normalization and the cap, or
\* the source is configured allow-zero.
C3_SucceededIffEventsOrAllowZero ==
    \A i \in SourceIdx :
        Processed_(i) =>
            ( IsSucceeded(i) <=>
                ( /\ outcome[i] \notin {"skipped", "raised", "raised_late"}
                  /\ \/ OfSource(incoming_all, i) # <<>>
                     \/ Sources[i].allow_zero_events ) )

\* a source whose extractor returned records that the filters all removed,
\* without allow-zero: it is not marked succeeded
C3_Witness ==
    \E i \in SourceIdx :
        /\ returned[i] = "records"
        /\ ~Sources[i].allow_zero_events
        /\ outcome[i] = "zero"
        /\ ~IsSucceeded(i)

----------------------------------------------------------------------------
(* C5 *)

\* C5: merging the same incoming batch into the merged catalog again gives
\* the merged catalog, order included.
C5_RebuildIdempotent ==
    Merged => rebuild_workshops(rebuilt, incoming_all, succeeded) = rebuilt

----------------------------------------------------------------------------
(* C4 *)

\* Some source raised an exception in this run
SomeRaised == \E i \in SourceIdx : outcome[i] \in {"raised", "raised_late"}

\* C4: an exception raised while one source is processed never aborts the
\* run: that source stays out of the succeeded set, the loop goes on with the
\* next source, the merge starts only when every source had its turn, and the
\* run then writes the catalog it computed.
C4_ExceptionNeverAborts ==
    /\ \A i \in SourceIdx :
           outcome[i] \in {"raised", "raised_late"} => ~IsSucceeded(i)
    /\ SomeRaised =>
           \/ pc = "loop" /\ idx <= Len(Sources)
                 /\ \A i \in SourceIdx : (i < idx <=> Processed_(i))
           \/ pc = "loop" /\ idx = Len(Sources) + 1
                 /\ \A i \in SourceIdx : Processed_(i)
           \/ pc = "write" /\ (\A i \in SourceIdx : Processed_(i))
                 /\ deduped = FinalDedup(prune_events(
                        rebuild_workshops(existing, incoming_all, succeeded),
                        prune_days_past, keep_days_future, now))
           \/ pc = "idle" /\ catalog = deduped

\* a run in which the first source raised and that still wrote its catalog,
\* holding the records of the second source
C4_Witness ==
    /\ pc = "idle"
    /\ runs >= 1
    /\ outcome[1] = "raised"
    /\ outcome[2] = "ok"
    /\ catalog = deduped
    /\ catalog # <<>>

----------------------------------------------------------------------------
(* C6 *)

\* main from the merge to the list it writes
FinalCatalog(old, incoming, succ, clock) ==
    FinalDedup(prune_events(rebuild_workshops(old, incoming, succ),
                            prune_days_past, keep_days_future, clock))

UniqueIds(seq) ==
    \A j, k \in DOMAIN seq : j # k => seq[j].id # seq[k].id

----------------------------------------------------------------------------
(* C7 *)

\* incoming_all had the sources been processed from the last to the first,
\* each with the same normalized output
RECURSIVE IncomingReversed(_)
IncomingReversed(n) ==
    IF n = 0 THEN <<>>
    ELSE OfSource(incoming_all, n) \o IncomingReversed(n - 1)

\* C7: with the same existing catalog, the same succeeded set and the same
\* per-source normalized output, the final catalog is the same list, order
\* included, whatever the order in which the sources are processed.
C7_SourceOrderIrrelevant ==
    Merged =>
        deduped = FinalCatalog(existing, IncomingReversed(Len(Sources)), succeeded, now)

----------------------------------------------------------------------------
(* C8 *)

\* alphabetical rank of the lower-cased titles of the model
TitleRank(t) ==
    CASE LowerTitle(t) = "class pack" -> 1
      [] LowerTitle(t) = "demo" -> 2
      [] LowerTitle(t) = "intro" -> 3
      [] LowerTitle(t) = "late show" -> 4
      [] LowerTitle(t) = "workshop" -> 5
      [] OTHER -> 6

\* C8: the final catalog is ascending by startAt, entries with equal startAt
\* being ordered by their case-insensitively compared titles.
C8_FinalCatalogOrdered ==
    Merged =>
        \A j, k \in DOMAIN deduped :
            j < k =>
                \/ deduped[j].startAt < deduped[k].startAt
                \/ /\ deduped[j].startAt = deduped[k].startAt
                   /\ TitleRank(deduped[j].title) <= TitleRank(deduped[k].title)

\* the startAt half of C8 alone: the final catalog is ascending by startAt
C8_FinalCatalogAscending ==
    Merged =>
        \A j, k \in DOMAIN deduped :
            j < k => deduped[j].startAt <= deduped[k].startAt

----------------------------------------------------------------------------
(* C9 *)

PastCut == now - prune_days_past * DayHours

FutureCut == now + keep_days_future * DayHours

\* the retention window as the claim states it, for an entry whose startAt
\* and endAt are instants
InWindow(w) ==
    /\ w.startAt >= 0
    /\ w.endAt >= PastCut
    /\ w.startAt <= FutureCut

\* C9: prune_events keeps exactly the events with endAt >= now - P days and
\* startAt <= now + F days, in their input order (an entry whose startAt is
\* no instant is dropped).
C9_PruneKeepsWindow ==
    Merged => pruned = SelectSeq(rebuilt, InWindow)

\* a merge whose list holds an event ending exactly at now - P and one
\* starting exactly at now + F, both kept, and one starting one hour after
\* now + F, dropped
C9_Witness ==
    /\ Merged
    /\ \E w \in ToSet(rebuilt) : w.endAt = PastCut /\ w \in ToSet(pruned)
    /\ \E w \in ToSet(rebuilt) : w.startAt = FutureCut /\ w \in ToSet(pruned)
    /\ \E w \in ToSet(rebuilt) : w.startAt = FutureCut + 1 /\ w \notin ToSet(pruned)

\* the other edge: an event ending one hour before now - P is dropped
C9_WitnessPastDropped ==
    /\ Merged
    /\ \E w \in ToSet(rebuilt) :
           w.startAt >= 0 /\ w.endAt = PastCut - 1 /\ w \notin ToSet(pruned)

----------------------------------------------------------------------------
(* C10 *)

Populated(w) ==
    [registrationURL |-> w.registrationURL # NoneUrl, detail |-> w.detail # "",
     venue |-> w.venue # "", links |-> w.links # <<>>]

----------------------------------------------------------------------------
(* C11 *)

\* the richness score: the number of populated fields among registrationURL,
\* detail, links and venue
Richness(w) ==
    Cardinality({ f \in DOMAIN Populated(w) : Populated(w)[f] })

\* C11: when two entries of one run have the same id, the one of them with
\* the lower richness score is not the one kept in the final catalog,
\* whichever of the two came first.
C11_RicherEntryKept ==
    Merged =>
        \A x, y \in ToSet(incoming_all) :
            (x.id = y.id /\ x.id # NoId /\ Richness(x) > Richness(y))
                => y \notin ToSet(deduped)

----------------------------------------------------------------------------
(* C12 *)

\* a start instant was resolved for the event
HasStart(w) == w.startAt # NoTime /\ w.startAt # BadTime

\* C12: the normalizer produces no event for a candidate from which no start
\* instant can be resolved: every event handed to the merge has a start
\* instant, and a source without allow-zero is counted as succeeded only on
\* an event that has one.
C12_NoStartNoEvent ==
    /\ \A k \in DOMAIN incoming_all : HasStart(incoming_all[k])
    /\ \A i \in SourceIdx :
           (outcome[i] = "ok" /\ ~Sources[i].allow_zero_events)
               => \E w \in ToSet(OfSource(incoming_all, i)) : HasStart(w)

----------------------------------------------------------------------------
(* The record normalizer applied on its own: one raw candidate normalized  *)
(* at two wall-clock times, and a second candidate of the same source that *)
(* differs from it in title or start.                                      *)

\* the wall-clock times of the runs
Clocks == InitialNow..(InitialNow + MaxClockSteps)

RawStarts == {NoTime, BadTime, MidStart, MidStart + DayHours, DateOnly(InitialNow \div DayHours)}

\* ends: absent, two days before the start, one hour before it, equal to
\* it, after it, and a day without a clock time
RawEnds ==
    {NoTime, MidStart - 2 * DayHours, MidStart - 1, MidStart,
     MidStart + DEFAULT_EVENT_DURATION_HOURS, DateOnly(InitialNow \div DayHours)}

\* raw candidates that leave the id to the normalizer
RawCandidates ==
    { [id |-> NoId, title |-> title, startAt |-> start, endAt |-> end,
       registrationURL |-> url, detail |-> "", venue |-> "", links |-> <<>>] :
      title \in {"Demo", "Intro"}, start \in RawStarts, end \in RawEnds,
      url \in {NoneUrl, UrlY} }

NormProbes ==
    { [fn |-> "ensure_workshop_schema", source |-> i, e |-> e,
       other |-> [e EXCEPT !.title = title, !.startAt = start],
       t1 |-> t1, t2 |-> t2, out |-> <<>>] :
      i \in SourceIdx, e \in RawCandidates, title \in {"Demo", "Intro"},
      start \in RawStarts, t1 \in Clocks, t2 \in Clocks }

NormInit ==
    /\ RunIdle
    /\ probe \in { p \in NormProbes : p.t1 <= p.t2 }

\* out: e normalized at t1, e normalized at t2, other normalized at t1
Normalize ==
    /\ probe.fn = "ensure_workshop_schema"
    /\ probe.out = <<>>
    /\ probe' = [probe EXCEPT !.out =
            << ensure_workshop_schema(probe.e, Sources[probe.source], probe.t1),
               ensure_workshop_schema(probe.e, Sources[probe.source], probe.t2),
               ensure_workshop_schema(probe.other, Sources[probe.source], probe.t1) >>]
    /\ UNCHANGED runvars

NormNext == Normalize

NormSpec == NormInit /\ [][NormNext]_vars

Normalized == probe.fn = "ensure_workshop_schema" /\ probe.out # <<>>

----------------------------------------------------------------------------
(* C13 *)

\* C13: every event produced by the normalization that has a start instant
\* and an end instant has its end at or after its start, whatever start and
\* end the candidate supplies.
C13_EndNotBeforeStart ==
    Normalized =>
        \A k \in DOMAIN probe.out :
            (probe.out[k].startAt >= 0 /\ probe.out[k].endAt >= 0)
                => probe.out[k].endAt >= probe.out[k].startAt

----------------------------------------------------------------------------
(* Time parsing helpers.  A text is modelled by the one clock-time          *)
(* expression in it: its shape says which of the patterns match it.         *)
(*   "none"      no clock time                                              *)
(*   "single"    "7pm", "7:30 PM"            (SINGLE_TIME_RE)               *)
(*   "end_only"  "7-10pm"                    (TIME_RANGE_END_ONLY_RE)       *)
(*   "context"   "(7-10pm PT)", "| 7-10pm"   (TIME_IN_CONTEXT_RE)           *)
(*   "full"      "7pm-10pm"                  (TIME_RANGE_FULL_RE)           *)
(* sh, sm, sap, eh, em, eap are the captured groups; a group that the shape *)
(* does not have is 0 or "".                                                *)

\* (\d{1,2}) captures one or two digits
MaxCapturedHour == 99

CapturedHours == 0..MaxCapturedHour

\* the hours written in the ranges of the model
RangeHours == 0..MaxRangeHour

\* the minutes written in the texts of the model
CapturedMinutes == {0, 30}

Meridiems == {"am", "pm"}

NoText == [shape |-> "none", sh |-> 0, sm |-> 0, sap |-> "", eh |-> 0, em |-> 0, eap |-> ""]

SingleTexts ==
    { [shape |-> "single", sh |-> h, sm |-> m, sap |-> ap, eh |-> 0, em |-> 0, eap |-> ""] :
      h \in CapturedHours, m \in CapturedMinutes, ap \in Meridiems }

EndOnlyTexts ==
    { [shape |-> shape, sh |-> h, sm |-> m, sap |-> "", eh |-> h2, em |-> 0, eap |-> ap] :
      shape \in {"end_only", "context"}, h \in RangeHours, m \in CapturedMinutes,
      h2 \in RangeHours, ap \in Meridiems }

FullTexts ==
    { [shape |-> "full", sh |-> h, sm |-> m, sap |-> ap, eh |-> h2, em |-> 0, eap |-> ap2] :
      h \in RangeHours, m \in CapturedMinutes, ap \in Meridiems,
      h2 \in RangeHours, ap2 \in Meridiems }

TimeTexts == {NoText} \cup SingleTexts \cup EndOnlyTexts \cup FullTexts

\* _to_24h: ap is "am", "pm" or "" (None)
to_24h(h, m, ap) ==
    IF ap = ""
    THEN IF h >= 1 /\ h <= 11 THEN <<h + 12, m>> ELSE <<h, m>>
    ELSE IF ap = "am"
         THEN IF h = 12 THEN <<0, m>> ELSE <<h, m>>
         ELSE IF h # 12 THEN <<h + 12, m>> ELSE <<h, m>>

\* (None, None, None, None)
NoneTimes == <<>>

\* <<start_hour_24, start_min, end_hour_24, end_min>> or NoneTimes
extract_time_from_text(text) ==
    CASE text.shape = "context" ->
           LET sap == IF text.sh <= text.eh \/ text.sh = 12 THEN text.eap ELSE text.eap
               s == to_24h(text.sh, text.sm, sap)
               e == to_24h(text.eh, text.em, text.eap)
           IN <<s[1], s[2], e[1], e[2]>>
      [] text.shape = "full" ->
           LET s == to_24h(text.sh, text.sm, text.sap)
               e == to_24h(text.eh, text.em, text.eap)
           IN <<s[1], s[2], e[1], e[2]>>
      [] text.shape = "end_only" ->
           LET sap == IF text.sh > text.eh /\ text.sh >= 10 THEN "am" ELSE text.eap
               s == to_24h(text.sh, text.sm, sap)
               e == to_24h(text.eh, text.em, text.eap)
           IN <<s[1], s[2], e[1], e[2]>>
      [] text.shape = "single" ->
           LET s == to_24h(text.sh, text.sm, text.sap)
               eh24 == s[1] + DEFAULT_EVENT_DURATION_HOURS
           IN <<s[1], s[2], IF eh24 >= 24 THEN 23 ELSE eh24, s[2]>>
      [] OTHER -> NoneTimes

HourMinutes == 60

DayMinutes == DayHours * HourMinutes

\* the default start slot of apply_time_to_date: 6pm
DefaultStartHour == 18

\* datetime.replace(hour=h, minute=m) raises ValueError
BadClock(h, m) == h < 0 \/ h > 23 \/ m < 0 \/ m > 59

\* base_date is a day number; start and end are in minutes.  raised: the
\* call ends in a ValueError.
apply_time_to_date(base_date, text) ==
    LET t == extract_time_from_text(text)
        midnight == base_date * DayMinutes
    IN IF t # NoneTimes
       THEN IF BadClock(t[1], t[2]) \/ BadClock(t[3], t[4])
            THEN [raised |-> TRUE, start |-> 0, end |-> 0]
            ELSE LET start == midnight + t[1] * HourMinutes + t[2]
                     end == midnight + t[3] * HourMinutes + t[4]
                 IN [raised |-> FALSE, start |-> start,
                     end |-> IF end <= start THEN end + DayMinutes ELSE end]
       ELSE [raised |-> FALSE,
             start |-> midnight + DefaultStartHour * HourMinutes,
             end |-> midnight + DefaultStartHour * HourMinutes
                       + DEFAULT_EVENT_DURATION_HOURS * HourMinutes]

BaseDates == {InitialNow \div DayHours, InitialNow \div DayHours + 1}

TimeInit ==
    /\ RunIdle
    /\ probe \in { [fn |-> "apply_time_to_date", text |-> text, base_date |-> d,
                     times |-> NoneTimes, out |-> <<>>] :
                    text \in TimeTexts, d \in BaseDates }

\* times: what extract_time_from_text returns for the text; out: what
\* apply_time_to_date returns
ApplyTime ==
    /\ probe.fn = "apply_time_to_date"
    /\ probe.out = <<>>
    /\ probe' = [probe EXCEPT
                    !.times = extract_time_from_text(probe.text),
                    !.out = <<apply_time_to_date(probe.base_date, probe.text)>>]
    /\ UNCHANGED runvars

TimeNext == ApplyTime

TimeSpec == TimeInit /\ [][TimeNext]_vars

TimeApplied == probe.fn = "apply_time_to_date" /\ probe.out # <<>>

\* the hours of the 12-hour clock
ClockHours == 1..12

\* the 12-hour conversion as the time rules state it
Hour24(h, ap) ==
    IF ap = "am" THEN (IF h = 12 THEN 0 ELSE h)
    ELSE (IF h = 12 THEN 12 ELSE h + 12)

----------------------------------------------------------------------------
(* C14 *)

\* C14: for a range whose only meridiem marker is on the end (hours of the
\* 12-hour clock), the start is taken as morning when start-hour > end-hour
\* and start-hour >= 10 and otherwise takes the meridiem of the end; start
\* and end are on the base date unless the end is not after the start.
C14_EndOnlyMeridiem ==
    ( /\ TimeApplied
      /\ probe.text.shape \in {"end_only", "context"}
      /\ probe.text.sh \in ClockHours
      /\ probe.text.eh \in ClockHours )
    => LET text == probe.text
           sap == IF text.sh > text.eh /\ text.sh >= 10 THEN "am" ELSE text.eap
       IN probe.times = <<Hour24(text.sh, sap), text.sm, Hour24(text.eh, text.eap), text.em>>

----------------------------------------------------------------------------
(* C15 *)

\* C15: the 12-hour conversion maps 12 am to 0, 12 pm to 12 and every other
\* hour under pm to hour + 12, and for every hour the patterns can capture
\* extract_time_from_text returns no start or end hour below 0 or above 23.
C15_HoursWithinDay ==
    TimeApplied =>
        /\ (probe.text.shape = "single" /\ probe.text.sh \in ClockHours)
               => probe.times[1] = Hour24(probe.text.sh, probe.text.sap)
        /\ probe.times # NoneTimes
               => /\ probe.times[1] >= 0 /\ probe.times[1] <= 23
                  /\ probe.times[3] >= 0 /\ probe.times[3] <= 23

----------------------------------------------------------------------------
(* C16 *)

\* C16: for a text with a single clock time with meridiem (any start hour
\* 0..23), apply_time_to_date returns end = start + the default duration,
\* on the next calendar day when that passes midnight.
C16_SingleTimeDuration ==
    ( /\ TimeApplied
      /\ probe.text.shape = "single"
      /\ probe.text.sh \in ClockHours )
    => LET out == probe.out[1]
       IN /\ ~out.raised
          /\ out.start = probe.base_date * DayMinutes
                            + Hour24(probe.text.sh, probe.text.sap) * HourMinutes
                            + probe.text.sm
          /\ out.end = out.start + DEFAULT_EVENT_DURATION_HOURS * HourMinutes

----------------------------------------------------------------------------
(* C17 *)

\* C17: for a text with no clock time apply_time_to_date returns the default
\* start slot on the base date and end = start + the default duration, and
\* what it returns differs from what it returns for any text in which a time
\* was found, so that the caller can tell the two apart.
C17_DefaultSlotMarked ==
    (TimeApplied /\ probe.text.shape = "none")
    => LET out == probe.out[1]
       IN /\ out.start = probe.base_date * DayMinutes + DefaultStartHour * HourMinutes
          /\ out.end = out.start + DEFAULT_EVENT_DURATION_HOURS * HourMinutes
          /\ \A text \in TimeTexts :
                 text.shape # "none"
                     => apply_time_to_date(probe.base_date, text) # out

----------------------------------------------------------------------------
(* normalize_url applied on its own, to two URLs *)

UrlSchemes == {"https", "HTTPS", "http"}

UrlHosts == {"y.com", "Y.COM"}

\* "", "/", "/e", "/E", "/e/", "/e//"
UrlPaths ==
    { <<>>, <<"/">>, <<"/", "e">>, <<"/", "E">>, <<"/", "e", "/">>,
      <<"/", "e", "/", "/">> }

UrlQueries == { <<>>, <<"utm_source">>, <<"b">>, <<"fbclid", "b", "utm_source">> }

UrlFragments == {"", "top"}

Urls ==
    { [scheme |-> scheme, netloc |-> netloc, path |-> path, query |-> query,
       fragment |-> fragment] :
      scheme \in UrlSchemes, netloc \in UrlHosts, path \in UrlPaths,
      query \in UrlQueries, fragment \in UrlFragments }

UrlInit ==
    /\ RunIdle
    /\ probe \in { [fn |-> "normalize_url", u1 |-> u1, u2 |-> u2, out |-> <<>>] :
                    u1 \in Urls, u2 \in Urls }

NormalizeUrls ==
    /\ probe.fn = "normalize_url"
    /\ probe.out = <<>>
    /\ probe' = [probe EXCEPT !.out = <<normalize_url(probe.u1), normalize_url(probe.u2),
                                        normalize_url(normalize_url(probe.u1))>>]
    /\ UNCHANGED runvars

UrlNext == NormalizeUrls

UrlSpec == UrlInit /\ [][UrlNext]_vars

UrlsNormalized == probe.fn = "normalize_url" /\ probe.out # <<>>

----------------------------------------------------------------------------
(* C18 *)

\* p is q followed by one more slash
OneMoreSlash(p, q) == p = q \o <<"/">>

\* the two paths are the same or differ only in a trailing slash
PathsDifferInSlash(p, q) == p = q \/ OneMoreSlash(p, q) \/ OneMoreSlash(q, p)

\* the parameters of a query that are not tracking parameters, in order
NonTracking(q) == SelectSeq(q, LAMBDA k : k \notin TRACKING_PARAMS)

\* the two URLs differ at most in tracking parameters and in the letter case
\* of scheme and host, their paths left aside
SameButTrackingAndCase(u1, u2) ==
    /\ LowerStr(u1.scheme) = LowerStr(u2.scheme)
    /\ LowerStr(u1.netloc) = LowerStr(u2.netloc)
    /\ NonTracking(u1.query) = NonTracking(u2.query)
    /\ u1.fragment = u2.fragment

\* the path of the result is the path of the URL, letter case included, up
\* to a trailing slash, and the result has no fragment
PathKeptFragmentDropped(u, out) ==
    /\ PathsDifferInSlash(u.path, out.path)
    /\ out.fragment = ""

\* C18: for two URLs that differ only in tracking query parameters, in a
\* trailing slash, or in the letter case of scheme or host, normalize_url
\* returns the same string; the letter case of the path is preserved and the
\* fragment is dropped.
C18_NormalizeUrlInvariant ==
    UrlsNormalized =>
        /\ ( SameButTrackingAndCase(probe.u1, probe.u2)
             /\ PathsDifferInSlash(probe.u1.path, probe.u2.path) )
               => probe.out[1] = probe.out[2]
        /\ PathKeptFragmentDropped(probe.u1, probe.out[1])

----------------------------------------------------------------------------
(* C19 *)

\* C19: a registration URL equal to the landing-page URL of the source is
\* never the fingerprint: no id is computed from the landing-page URL, and
\* two candidates of one source without a URL of their own that differ in
\* title or start get two different ids.
C19_LandingUrlNotFingerprint ==
    ( /\ Normalized
      /\ probe.e.registrationURL = NoneUrl
      /\ probe.other.registrationURL = NoneUrl
      /\ probe.out[1].id # NoId
      /\ probe.out[3].id # NoId )
    => /\ \/ Sources[probe.source].url = NoneUrl
          \/ probe.out[1].id.url # normalize_url(Sources[probe.source].url)
       /\ ( \/ probe.e.title # probe.other.title
            \/ probe.e.startAt # probe.other.startAt )
              => probe.out[1].id # probe.out[3].id

----------------------------------------------------------------------------
(* C20 *)

\* C20: the same raw candidate normalized for the same source in two runs,
\* at two different wall-clock times, gets the same id.
C20_IdStableAcrossRuns ==
    (Normalized /\ probe.t1 # probe.t2) => probe.out[1].id = probe.out[2].id

----------------------------------------------------------------------------
(* The record normalizer applied to the candidates of two different        *)
(* configured sources.                                                     *)

\* source configurations: the two of Sources and two that have no id field
SourceConfigs ==
    ToSet(Sources) \cup
    { [id |-> <<>>, url |-> NoneUrl, allow_zero_events |-> FALSE],
      [id |-> <<>>, url |-> UrlLanding, allow_zero_events |-> FALSE] }

PairCandidates ==
    { e \in RawCandidates : e.startAt \in {NoTime, MidStart} /\ e.endAt = NoTime }

PairInit ==
    /\ RunIdle
    /\ \E s1 \in SourceConfigs, e1 \in PairCandidates, e2 \in PairCandidates :
         \E s2 \in SourceConfigs \ {s1} :
             probe = [fn |-> "two_sources", s1 |-> s1, s2 |-> s2, e1 |-> e1,
                      e2 |-> e2, out |-> <<>>]

\* out: e1 normalized for s1, e2 normalized for s2
NormalizePair ==
    /\ probe.fn = "two_sources"
    /\ probe.out = <<>>
    /\ probe' = [probe EXCEPT !.out =
            << ensure_workshop_schema(probe.e1, probe.s1, InitialNow),
               ensure_workshop_schema(probe.e2, probe.s2, InitialNow) >>]
    /\ UNCHANGED runvars

PairNext == NormalizePair

PairSpec == PairInit /\ [][PairNext]_vars

----------------------------------------------------------------------------
(* C21 *)

\* C21: the events produced for two different configured sources never get
\* the same id, whatever the two source configurations are, sources with no
\* id field included.
C21_NoIdAcrossSources ==
    ( /\ probe.fn = "two_sources"
      /\ probe.out # <<>>
      /\ probe.out[1].id # NoId )
    => probe.out[1].id # probe.out[2].id

----------------------------------------------------------------------------
(* Year inference for a month and a day given without a year.  A date is   *)
(* [year, month, day]; now is a date and noon: whether its clock time is   *)
(* after midnight.                                                         *)

IsLeap(y) == (y % 4 = 0 /\ y % 100 # 0) \/ y % 400 = 0

MonthLengths(y) ==
    <<31, IF IsLeap(y) THEN 29 ELSE 28, 31, 30, 31, 30, 31, 31, 30, 31, 30, 31>>

\* datetime(y, m, d) does not raise ValueError
DateExists(y, m, d) == m \in 1..12 /\ d >= 1 /\ d <= MonthLengths(y)[m]

RECURSIVE DaysBeforeMonth(_, _)
DaysBeforeMonth(y, m) ==
    IF m = 1 THEN 0 ELSE DaysBeforeMonth(y, m - 1) + MonthLengths(y)[m - 1]

FirstYear == 2024

RECURSIVE DaysBeforeYear(_)
DaysBeforeYear(y) ==
    IF y <= FirstYear THEN 0
    ELSE DaysBeforeYear(y - 1) + (IF IsLeap(y - 1) THEN 366 ELSE 365)

\* the day number of a date
Ordinal(y, m, d) == DaysBeforeYear(y) + DaysBeforeMonth(y, m) + d

THRESHOLD_MONTH_DAY == 45
THRESHOLD_PARSE_DATE_ANY == 60
THRESHOLD_MM_DD == 90

ADate(y, m, d) == [kind |-> "date", year |-> y, month |-> m, day |-> d]

\* the call returns None
NoDate == [kind |-> "none", year |-> 0, month |-> 0, day |-> 0]

\* the call ends in a ValueError
RaisedDate == [kind |-> "raised", year |-> 0, month |-> 0, day |-> 0]

\* candidate < now - timedelta(days=threshold), the candidate at midnight
MidnightBefore(y, m, d, nw, threshold) ==
    \/ Ordinal(y, m, d) < Ordinal(nw.year, nw.month, nw.day) - threshold
    \/ /\ Ordinal(y, m, d) = Ordinal(nw.year, nw.month, nw.day) - threshold
       /\ nw.noon

\* d < now - timedelta(days=threshold), d at the clock time of now
SameClockBefore(y, m, d, nw, threshold) ==
    Ordinal(y, m, d) < Ordinal(nw.year, nw.month, nw.day) - threshold

\* dateparser.parse raises on a day the year does not have, and so does
\* d.replace(year=now.year + 1)
infer_year_for_month_day(m, d, nw) ==
    IF ~DateExists(nw.year, m, d) THEN RaisedDate
    ELSE IF MidnightBefore(nw.year, m, d, nw, THRESHOLD_MONTH_DAY)
         THEN IF DateExists(nw.year + 1, m, d)
              THEN ADate(nw.year + 1, m, d) ELSE RaisedDate
         ELSE ADate(nw.year, m, d)

infer_year_for_mm_dd(m, d, nw) ==
    IF ~DateExists(nw.year, m, d) THEN NoDate
    ELSE IF MidnightBefore(nw.year, m, d, nw, THRESHOLD_MM_DD)
         THEN IF DateExists(nw.year + 1, m, d)
              THEN ADate(nw.year + 1, m, d) ELSE NoDate
         ELSE ADate(nw.year, m, d)

\* parse_date_any on a text without a year: the year and the clock time come
\* from now; a failing d.replace(year=d.year + 1) is passed over
parse_date_any_no_year(m, d, nw) ==
    IF ~DateExists(nw.year, m, d) THEN NoDate
    ELSE IF SameClockBefore(nw.year, m, d, nw, THRESHOLD_PARSE_DATE_ANY)
         THEN IF DateExists(nw.year + 1, m, d)
              THEN ADate(nw.year + 1, m, d) ELSE ADate(nw.year, m, d)
         ELSE ADate(nw.year, m, d)

YearHelpers == {"infer_year_for_month_day", "infer_year_for_mm_dd", "parse_date_any"}

\* the month/day pairs of the model: the first, the middle and the last
\* days of every month, 29 February included
MonthDays ==
    { md \in (1..12) \X {1, 15, 28, 29, 30, 31} : DateExists(FirstYear, md[1], md[2]) }

Nows ==
    { [year |-> y, month |-> m, day |-> d, noon |-> noon] :
      y \in {FirstYear, FirstYear + 1, FirstYear + 3}, m \in 1..12, d \in {1, 15},
      noon \in BOOLEAN }

YearInit ==
    /\ RunIdle
    /\ \E h \in YearHelpers, md \in MonthDays, nw \in Nows :
         probe = [fn |-> h, month |-> md[1], day |-> md[2], now |-> nw, out |-> <<>>]

InferYear ==
    /\ probe.fn \in YearHelpers
    /\ probe.out = <<>>
    /\ probe' = [probe EXCEPT !.out =
            << CASE probe.fn = "infer_year_for_month_day" ->
                      infer_year_for_month_day(probe.month, probe.day, probe.now)
                 [] probe.fn = "infer_year_for_mm_dd" ->
                      infer_year_for_mm_dd(probe.month, probe.day, probe.now)
                 [] OTHER ->
                      parse_date_any_no_year(probe.month, probe.day, probe.now) >>]
    /\ UNCHANGED runvars

YearNext == InferYear

YearSpec == YearInit /\ [][YearNext]_vars

\* the threshold of the helper and whether the current-year date is more
\* than that many days before now
ThresholdOf(h) ==
    CASE h = "infer_year_for_month_day" -> THRESHOLD_MONTH_DAY
      [] h = "infer_year_for_mm_dd" -> THRESHOLD_MM_DD
      [] OTHER -> THRESHOLD_PARSE_DATE_ANY

LongPast(h, m, d, nw) ==
    IF h = "parse_date_any"
    THEN SameClockBefore(nw.year, m, d, nw, ThresholdOf(h))
    ELSE MidnightBefore(nw.year, m, d, nw, ThresholdOf(h))

----------------------------------------------------------------------------
(* C22 *)

\* C22: for every valid month and day, 29 February included, each of the
\* year-inference helpers returns a date (it neither raises nor returns
\* nothing): the month and day in the current year, unless that date is more
\* than the threshold before now, and then the month and day in the next
\* year (where the year in question has that day).
C22_YearInferred ==
    (probe.fn \in YearHelpers /\ probe.out # <<>>)
    => LET r == probe.out[1]
           nw == probe.now
       IN /\ r.kind = "date"
          /\ r.month = probe.month /\ r.day = probe.day
          /\ DateExists(nw.year, probe.month, probe.day)
                => IF ~LongPast(probe.fn, probe.month, probe.day, nw)
                   THEN r.year = nw.year
                   ELSE DateExists(nw.year + 1, probe.month, probe.day)
                            => r.year = nw.year + 1

----------------------------------------------------------------------------
(* C23 *)

\* the event of a is in the list: an entry with its id and its endAt
Holds(seq, a) ==
    \E k \in DOMAIN seq : seq[k].id = a.event.id /\ seq[k].endAt = a.event.endAt

\* C23: once a run has dropped an event because its endAt is earlier than
\* now - P, the event is in no catalog written by that run or a later one,
\* whether its source lists it again and succeeds, or fails.
C23_AgedOutStaysOut ==
    /\ Merged => \A a \in aged : ~Holds(deduped, a)
    /\ pc # "write" => \A a \in aged : ~Holds(catalog, a)

\* the first run dropped an event as past; in the second run its source
\* succeeded and listed it again, and the catalog written does not hold it
C23_Witness ==
    /\ pc = "idle"
    /\ runs = 2
    /\ \E a \in aged :
           /\ a.run = 1
           /\ a.event \in ToSet(incoming_all)
           /\ a.event.provider \in succeeded
           /\ ~Holds(catalog, a)

----------------------------------------------------------------------------
(* Writing the catalog file, step by step (main, lines 2011-2016) *)

\* the workshops lists a file can hold: entries stand by their names
FileCatalogs == {<<>>, <<"w1">>, <<"w2">>, <<"w1", "w2">>, <<"w2", "w1">>}

\* the chunks json.dump writes for a resources object, in order
Document(workshops) == <<"{">> \o workshops \o <<"}">>

\* the file as a finished run leaves it: the document and the newline
FileOf(workshops) == Document(workshops) \o <<"\n">>

\* main has computed deduped; the file still holds what the last run wrote
WriteInit ==
    /\ RunIdle
    /\ \E old \in FileCatalogs, new \in FileCatalogs :
           probe = [fn |-> "write", resources |-> old, deduped |-> new,
                    f |-> FileOf(old), at |-> "computed"]

AtWrite(at) == probe.fn = "write" /\ probe.at = at

\* the run fails before line 2014: the file has not been opened for writing
FailBeforeOpen ==
    /\ AtWrite("computed")
    /\ probe' = [probe EXCEPT !.at = "failed"]
    /\ UNCHANGED runvars

\* open(args.resources, "w") truncates the file
OpenFile ==
    /\ AtWrite("computed")
    /\ probe' = [probe EXCEPT !.f = <<>>, !.at = "open"]
    /\ UNCHANGED runvars

\* json.dump writes the next chunk of the document
WriteChunk ==
    /\ AtWrite("open")
    /\ Len(probe.f) < Len(Document(probe.deduped))
    /\ probe' = [probe EXCEPT
                    !.f = Append(@, Document(probe.deduped)[Len(probe.f) + 1])]
    /\ UNCHANGED runvars

\* f.write("\n")
WriteNewline ==
    /\ AtWrite("open")
    /\ probe.f = Document(probe.deduped)
    /\ probe' = [probe EXCEPT !.f = Append(@, "\n")]
    /\ UNCHANGED runvars

\* the with block ends: the file is closed
CloseFile ==
    /\ AtWrite("open")
    /\ probe.f = FileOf(probe.deduped)
    /\ probe' = [probe EXCEPT !.at = "done"]
    /\ UNCHANGED runvars

\* json.dump or f.write raises (or the process is stopped) while the file is
\* open: the with block closes the file with what has been written
FailDuringWrite ==
    /\ AtWrite("open")
    /\ probe' = [probe EXCEPT !.at = "failed"]
    /\ UNCHANGED runvars

WriteNext ==
    \/ FailBeforeOpen
    \/ OpenFile
    \/ WriteChunk
    \/ WriteNewline
    \/ CloseFile
    \/ FailDuringWrite

WriteSpec == WriteInit /\ [][WriteNext]_vars

\* C24: when the run has ended, by failing at any step (the write included)
\* or by finishing, the catalog file holds the complete previous catalog or
\* the complete new one, never a partial document.
C24_FileWholeOrUntouched ==
    (AtWrite("failed") \/ AtWrite("done")) =>
        \/ probe.f = FileOf(probe.resources)
        \/ probe.f = FileOf(probe.deduped)
        \/ probe.f = Document(probe.deduped)

----------------------------------------------------------------------------
(* C25 *)

\* C25: the final dedup passes remove a record of the merged and pruned list
\* only if a record with the same id is kept: every id of the pruned list is
\* an id of the final catalog.
C25_DedupKeepsEveryId ==
    Merged => Ids(pruned) \subseteq Ids(deduped)

----------------------------------------------------------------------------
(* C26 *)

\* C26: rebuild_workshops keeps a prior entry exactly when the source that
\* produced it is not in the succeeded set, whatever the other sources did.
C26_KeptByOwnSourceStatus ==
    Merged =>
        \A k \in DOMAIN existing :
            \A i \in SourceIdx :
                existing[k].provider = Sources[i].id =>
                    (KeepExisting(existing[k], succeeded) <=> ~IsSucceeded(i))

----------------------------------------------------------------------------
(* C27 *)

\* C27: every record of the incoming batch handed to rebuild_workshops
\* belongs to a source of the succeeded set, and the entries a failed source
\* has in the merged list are prior entries of it.
C27_IncomingOnlyFromSucceeded ==
    Merged =>
        /\ \A k \in DOMAIN incoming_all : incoming_all[k].provider \in succeeded
        /\ \A i \in SourceIdx :
               IsFailed(i) =>
                   \A k \in DOMAIN rebuilt :
                       rebuilt[k].provider = Sources[i].id
                           => rebuilt[k] \in ToSet(existing)

----------------------------------------------------------------------------
(* C28 *)

\* C28: a range with a meridiem marker only on its end gives the same start
\* and end whether it stands in parentheses or after a pipe or stands bare:
\* the delimited branch of extract_time_from_text ends where the undelimited
\* branch ends on the same hours.
C28_DelimitedAsUndelimited ==
    ( /\ TimeApplied
      /\ probe.text.shape = "context"
      /\ probe.text.sh \in ClockHours
      /\ probe.text.eh \in ClockHours ) =>
        probe.times = extract_time_from_text([probe.text EXCEPT !.shape = "end_only"])

----------------------------------------------------------------------------
(* fetch_html, attempt by attempt *)

\* for attempt in range(3)
FETCH_ATTEMPTS == 3

\* what one requests.get can bring: a status code, or 0 when the request
\* itself raises (timeout, connection error)
Statuses == {0, 200, 404, 429, 500, 502, 503, 504}

\* the statuses fetch_html turns into an HTTPError itself
RETRY_STATUSES == {429, 500, 502, 503, 504}

\* r.raise_for_status() raises
IsHttpError(status) == status >= 400 /\ status < 600

NoErr == [kind |-> "none", status |-> 0, attempt |-> 0]

\* the exception that attempt number attempt ends in, NoErr when it returns
ErrOf(status, attempt) ==
    IF status = 0
    THEN [kind |-> "RequestException", status |-> 0, attempt |-> attempt]
    ELSE IF status \in RETRY_STATUSES \/ IsHttpError(status)
    THEN [kind |-> "HTTPError", status |-> status, attempt |-> attempt]
    ELSE NoErr

\* the first error is kept: a later one does not replace it
last_err_KeepFirst(last_err, e) == IF last_err = NoErr THEN e ELSE last_err

\* last_err = e
last_err_after(last_err, e) == e

NoOut == [kind |-> "none", request |-> 0, err |-> NoErr]

FetchInit ==
    /\ RunIdle
    /\ \E rs \in [1..FETCH_ATTEMPTS -> Statuses] :
           probe = [fn |-> "fetch_html", responses |-> rs, attempt |-> 0,
                    requests |-> 0, last_err |-> NoErr, at |-> "loop", out |-> NoOut]

AtFetch(at) == probe.fn = "fetch_html" /\ probe.at = at

\* one turn of the loop: the request, then return r.text or keep the error
Attempt ==
    /\ AtFetch("loop")
    /\ probe.attempt < FETCH_ATTEMPTS
    /\ LET n == probe.requests + 1
           e == ErrOf(probe.responses[n], probe.attempt + 1)
       IN IF e = NoErr
          THEN probe' = [probe EXCEPT !.requests = n, !.at = "returned",
                            !.out = [kind |-> "body", request |-> n, err |-> NoErr]]
          ELSE probe' = [probe EXCEPT !.requests = n, !.attempt = @ + 1,
                            !.last_err = last_err_after(@, e)]
    /\ UNCHANGED runvars

\* raise last_err or RuntimeError("fetch_html failed")
RaiseLast ==
    /\ AtFetch("loop")
    /\ probe.attempt = FETCH_ATTEMPTS
    /\ probe' = [probe EXCEPT !.at = "raised",
                    !.out = [kind |-> "raised", request |-> 0,
                             err |-> IF probe.last_err # NoErr THEN probe.last_err
                                     ELSE [kind |-> "RuntimeError", status |-> 0,
                                           attempt |-> 0]]]
    /\ UNCHANGED runvars

FetchNext ==
    \/ Attempt
    \/ RaiseLast

FetchSpec == FetchInit /\ [][FetchNext]_vars

\* a response that is neither an HTTP error nor one of 429/500/502/503/504
GoodResponse(status) ==
    status # 0 /\ status \notin {429, 500, 502, 503, 504} /\ ~(status >= 400)

----------------------------------------------------------------------------
(* C29 *)

\* C29: fetch_html makes at most 3 requests; it returns the body of the first
\* good response and makes no request after it; when all 3 attempts fail it
\* raises the error of the last attempt.
C29_FetchAtMostThree ==
    probe.fn = "fetch_html" =>
        /\ probe.requests <= 3
        /\ \A k \in 1..probe.requests :
               GoodResponse(probe.responses[k]) => (k = probe.requests /\ AtFetch("returned"))
        /\ AtFetch("returned") =>
               /\ GoodResponse(probe.responses[probe.requests])
               /\ probe.out = [kind |-> "body", request |-> probe.requests, err |-> NoErr]
        /\ AtFetch("raised") =>
               /\ probe.requests = 3
               /\ probe.out.kind = "raised"
               /\ probe.out.err.attempt = 3
               /\ probe.out.err.status = probe.responses[3]
               /\ probe.out.err.kind =
                      (IF probe.responses[3] = 0 THEN "RequestException" ELSE "HTTPError")

\* the first request timed out, the second got a 503, the third a 200 whose
\* body is returned
C29_Witness ==
    /\ AtFetch("returned")
    /\ probe.responses = <<0, 503, 200>>
    /\ probe.out.request = 3

----------------------------------------------------------------------------
(* C30 *)

\* C30: normalize_url is idempotent: normalizing a normalized URL gives the
\* same URL, also for a path that ends in more than one slash.
C30_NormalizeUrlIdempotent ==
    UrlsNormalized => probe.out[3] = probe.out[1]

====
